---- MODULE Spec2Model ----
(***************************************************************************)
(* Model of the MLX90614 infra red thermometer driver                      *)
(* (Src/mlx90614_ir_thermometer_driver.c).                                 *)
(*                                                                         *)
(* The driver is single threaded and synchronous, so every public function *)
(* is one action: the action runs the whole function body against the      *)
(* answers the I2C bus gives during that call.  The variables are the      *)
(* driver's static variables, plus a record of the call that was just      *)
(* made: which function, its arguments, the answers of the bus, the        *)
(* ordered log of the HAL calls it issued and the status it returned.      *)
(* The application then looks at the status and goes on to its next call.  *)
(***************************************************************************)
EXTENDS Integers, Naturals, Sequences, FiniteSets, TLC

(***************************************************************************)
(* Program constants.                                                      *)
(***************************************************************************)
MLX90614_EC_OK == 0
MLX90614_EC_NR == 2
MLX90614_EC_ERR == 4

HAL_OK == 0
HAL_ERROR == 1
HAL_BUSY == 2
HAL_TIMEOUT == 3

MLX90614_I2C_TIMEOUT == 100
MLX90614_ERASE_OR_WRITE_CELL_TIME == 1000
IS_MLX90614_READY_NUMBER_OF_TRIALS == 1

MLX90614_TA_RAM_ADDRESS == 6
MLX90614_TOBJ1_RAM_ADDRESS == 7
MLX90614_TOBJ2_RAM_ADDRESS == 8
MLX90614_RAM_OR_EEPROM_ADDRESS_SIZE == 1
MLX90614_TEMPERATURE_RESULT_SIZE == 2
MLX90614_EEPROM_SLAVE_ADDRESS_SIZE == 2
MLX90614_I2C_WRITE_COMMAND_SIZE == 4
MLX90614_SLAVE_ADDRESS_EEPROM_ADDRESS == 46
MLX90614_PEC_RESET_VALUE == 0
MLX90614_SLAVE_ADDRESS_EEPROM_ERASE_VALUE == 0
MLX90614_MAX_VALID_SLAVE_ADDRESS_VALUE == 126
MLX90614_MAX_VALID_SLAVE_ADDRESS_VALUE_PLUS_ONE == 127
MLX90614_MIN_VALID_SLAVE_ADDRESS_VALUE == 3
DEFAULT_SLAVE_ADDRESS == 90

MLX90614_Temp_K == 0
MLX90614_Temp_C == 1
MLX90614_Temp_F == 2

(***************************************************************************)
(* Bounds of the model.                                                    *)
(***************************************************************************)
\* how far around the two ends of the valid address range the address
\* arguments and the answering bus addresses are taken
EdgeWidth == 1
\* temp_t arguments are 0..MaxTempArg (3 and above are not enumerators)
MaxTempArg == 3
\* I2C handles the application owns are 1..NumHandles
NumHandles == 2
\* the undocumented high byte of the address cell is 0..MaxHighByte
MaxHighByte == 1

(***************************************************************************)
(* Values that are not C values: a pointer that is null, a HAL call that   *)
(* never returned, an argument the function does not have.                 *)
(***************************************************************************)
NULL == 0
NULL_FN == "NULL"
NO_RET == 0 - 1
NO_ARG == 0 - 1

UINT8_MAX == 255

Handles == 1 .. NumHandles
HALStatus == {HAL_OK, HAL_ERROR, HAL_BUSY, HAL_TIMEOUT}
HALFailure == HALStatus \ {HAL_OK}
ValidAddresses ==
    MLX90614_MIN_VALID_SLAVE_ADDRESS_VALUE .. MLX90614_MAX_VALID_SLAVE_ADDRESS_VALUE

\* uint8_t slave address arguments: both ends of the valid range with their
\* invalid neighbours, 0 and the largest uint8_t
AddrArgs ==
    (0 .. MLX90614_MIN_VALID_SLAVE_ADDRESS_VALUE + EdgeWidth - 1)
    \cup (MLX90614_MAX_VALID_SLAVE_ADDRESS_VALUE - EdgeWidth + 1
            .. MLX90614_MAX_VALID_SLAVE_ADDRESS_VALUE + EdgeWidth)
    \cup {UINT8_MAX}

\* 7-bit bus addresses at which something may answer a readiness probe during
\* a sweep: the universal address 0, both ends of the valid range and the
\* first address above it
SweepAnswers ==
    {0}
    \cup (MLX90614_MIN_VALID_SLAVE_ADDRESS_VALUE
            .. MLX90614_MIN_VALID_SLAVE_ADDRESS_VALUE + EdgeWidth)
    \cup (MLX90614_MAX_VALID_SLAVE_ADDRESS_VALUE
            .. MLX90614_MAX_VALID_SLAVE_ADDRESS_VALUE + EdgeWidth)

TempArgs == 0 .. MaxTempArg
HighBytes == 0 .. MaxHighByte
\* low byte a read of the address cell returns: an address of the valid range
LowBytes == AddrArgs \cap ValidAddresses
\* raw 16 bit readings a temperature read returns: 0, the reading of 0 degrees
\* Celsius, both sides of the error flag bit and the largest uint16_t
RawTemps ==
    {0, 13807, 65535} \cup (32768 - EdgeWidth .. 32767 + EdgeWidth)

(***************************************************************************)
(* 8-bit arithmetic.                                                       *)
(***************************************************************************)
\* bit i of x
Bit(x, i) == (x \div (2 ^ i)) % 2

\* a ^ b on 4-bit values
Xor4 ==
    [a \in 0 .. 15, b \in 0 .. 15 |->
        ((Bit(a, 0) + Bit(b, 0)) % 2)
        + 2 * ((Bit(a, 1) + Bit(b, 1)) % 2)
        + 4 * ((Bit(a, 2) + Bit(b, 2)) % 2)
        + 8 * ((Bit(a, 3) + Bit(b, 3)) % 2)]

\* a ^ b on uint8_t
Xor8(a, b) == Xor4[a % 16, b % 16] + 16 * Xor4[a \div 16, b \div 16]

\* uint8_t x = a << 1
Shl1(a) == (a * 2) % 256

(***************************************************************************)
(* Pure functions of the driver.                                           *)
(***************************************************************************)
\* one pass of the loop body of calculate_pec
pec_shift[data \in 0 .. UINT8_MAX] ==
    LET bit_check == data - (data % 128)
    IN  IF bit_check # 0 THEN Xor8(Shl1(data), 7) ELSE Shl1(data)

\* the for loop of calculate_pec from pass i on
pec_loop[i \in 0 .. 8, data \in 0 .. UINT8_MAX] ==
    IF i < 8 THEN pec_loop[i + 1, pec_shift[data]] ELSE data

\* a checksum that forgets the bytes taken before
calculate_pec_ignores_init_pec(init_pec, new_data) == pec_loop[0, new_data]

\* a loop that shifts and never applies the polynomial
calculate_pec_shift_only(init_pec, new_data) ==
    (Xor8(init_pec, new_data) * 256) % 256

calculate_pec(init_pec, new_data) == pec_loop[0, Xor8(init_pec, new_data)]

\* a status mapping without the HAL_TIMEOUT case label
HAL_ret_handler_no_timeout(HAL_status) ==
    CASE HAL_status = HAL_BUSY -> MLX90614_EC_NR
      [] HAL_status = HAL_ERROR -> MLX90614_EC_ERR
      [] OTHER -> HAL_status

\* a status mapping that reports a protocol error as a missing device
HAL_ret_handler_error_is_nr(HAL_status) ==
    CASE HAL_status = HAL_OK -> HAL_status
      [] OTHER -> MLX90614_EC_NR

\* a status mapping that reports a busy bus as an error
HAL_ret_handler_busy_is_err(HAL_status) ==
    CASE HAL_status = HAL_BUSY -> MLX90614_EC_ERR
      [] HAL_status = HAL_TIMEOUT -> MLX90614_EC_NR
      [] HAL_status = HAL_ERROR -> MLX90614_EC_ERR
      [] OTHER -> HAL_status

\* a status mapping that hands the HAL code through
HAL_ret_handler_pass_through(HAL_status) == HAL_status

HAL_ret_handler(HAL_status) ==
    CASE HAL_status = HAL_BUSY -> MLX90614_EC_NR
      [] HAL_status = HAL_TIMEOUT -> MLX90614_EC_NR
      [] HAL_status = HAL_ERROR -> MLX90614_EC_ERR
      [] OTHER -> HAL_status

\* a range test that forgets the lower bound, as the one of
\* init_mlx90614_module does
IsInvalidSlaveAddress_upper_only(slave_address) ==
    slave_address > MLX90614_MAX_VALID_SLAVE_ADDRESS_VALUE

\* a range test that forgets the upper bound
IsInvalidSlaveAddress_lower_only(slave_address) ==
    slave_address < MLX90614_MIN_VALID_SLAVE_ADDRESS_VALUE

\* the range test of set_mlx90614_module_slave_address and
\* set_mlx90614_device_slave_address
IsInvalidSlaveAddress(slave_address) ==
    \/ slave_address > MLX90614_MAX_VALID_SLAVE_ADDRESS_VALUE
    \/ slave_address < MLX90614_MIN_VALID_SLAVE_ADDRESS_VALUE

(***************************************************************************)
(* HAL calls as they appear in the log of a call.  res is the HAL status   *)
(* the call returned, NO_RET when it never returned.                       *)
(***************************************************************************)
EvIsDeviceReady(h, w, res) ==
    [k |-> "HAL_I2C_IsDeviceReady", h |-> h, w |-> w, reg |-> NO_ARG,
     data |-> <<>>, n |-> IS_MLX90614_READY_NUMBER_OF_TRIALS,
     t |-> MLX90614_I2C_TIMEOUT, res |-> res]

EvMemRead(h, w, reg, size, data, res) ==
    [k |-> "HAL_I2C_Mem_Read", h |-> h, w |-> w, reg |-> reg,
     data |-> data, n |-> size, t |-> MLX90614_I2C_TIMEOUT, res |-> res]

EvMasterTransmit(h, w, data, res) ==
    [k |-> "HAL_I2C_Master_Transmit", h |-> h, w |-> w, reg |-> NO_ARG,
     data |-> data, n |-> MLX90614_I2C_WRITE_COMMAND_SIZE,
     t |-> MLX90614_I2C_TIMEOUT, res |-> res]

EvDelay(ms) ==
    [k |-> "HAL_Delay", h |-> NULL, w |-> NO_ARG, reg |-> NO_ARG,
     data |-> <<>>, n |-> NO_ARG, t |-> ms, res |-> HAL_OK]

VARIABLES
    p_hi2c,                                       \* stored I2C handle
    mlx90614_slave_address,                       \* believed address
    mlx90614_slave_address_one_bit_left_shifted,  \* wire address
    mlx90614_temperature_type,                    \* selected unit
    p_get_mlx90614_converted_temperature,         \* conversion function
    op,           \* the function that was called last
    arg_addr,     \* its slave address argument
    arg_temp,     \* its temp_t argument
    arg_hi2c,     \* its handle argument
    ready,        \* 7-bit addresses that answered ready during the call
    fail,         \* status the bus gave at every other probed address
    cell_after,   \* low byte the device's address cell reports after the call
    log,          \* HAL calls the function issued, in order
    ret,          \* status the function returned, NO_RET if it never did
    dst,          \* the float the dst argument points to, once it is stored
    device_address,  \* 7-bit address the device loaded at its last power-up
    device_cell,     \* low byte of the device's non-volatile address cell
    pec_input,    \* bytes a checksum is computed over
    pec_fed,      \* how many of them calculate_pec has taken
    pec           \* the value calculate_pec returned last

drv == <<p_hi2c, mlx90614_slave_address,
         mlx90614_slave_address_one_bit_left_shifted,
         mlx90614_temperature_type, p_get_mlx90614_converted_temperature>>
addr_state == <<mlx90614_slave_address,
                mlx90614_slave_address_one_bit_left_shifted>>
unit_state == <<mlx90614_temperature_type,
                p_get_mlx90614_converted_temperature>>
vars == <<p_hi2c, mlx90614_slave_address,
          mlx90614_slave_address_one_bit_left_shifted,
          mlx90614_temperature_type, p_get_mlx90614_converted_temperature,
          op, arg_addr, arg_temp, arg_hi2c, ready, fail, cell_after,
          log, ret, dst, device_address, device_cell,
          pec_input, pec_fed, pec>>
\* a checksum computation
pec_state == <<pec_input, pec_fed, pec>>
\* the sensor on the bus
device == <<device_address, device_cell>>

\* the location dst points to has not been stored into
NOT_WRITTEN == <<>>

\* a HAL call of the last function never returned: the program has stopped
halted == op # "none" /\ ret = NO_RET

(***************************************************************************)
(* The answer of the bus to a readiness probe of 7-bit address a.  A call  *)
(* through a null handle dereferences it: on a target where address 0 is   *)
(* not readable the program faults (fault = TRUE), elsewhere the HAL works *)
(* on whatever lies there and returns some status.                         *)
(***************************************************************************)
ProbeAnswer(h, a, rdy, fl, fault) ==
    IF h = NULL /\ fault THEN NO_RET
    ELSE IF a \in rdy THEN HAL_OK ELSE fl

\* a fault is possible only while the stored handle is null
Faults == IF p_hi2c = NULL THEN BOOLEAN ELSE {FALSE}

\* the static variables are zero initialised except the believed address
StaticInit ==
    /\ p_hi2c = NULL
    /\ mlx90614_slave_address = DEFAULT_SLAVE_ADDRESS
    /\ mlx90614_slave_address_one_bit_left_shifted = 0
    /\ mlx90614_temperature_type = 0
    /\ p_get_mlx90614_converted_temperature = NULL_FN
    /\ op = "none"
    /\ arg_addr = NO_ARG
    /\ arg_temp = NO_ARG
    /\ arg_hi2c = NULL
    /\ ready = {}
    /\ fail = HAL_TIMEOUT
    /\ cell_after = NO_ARG
    /\ log = <<>>
    /\ ret = NO_RET
    /\ dst = NOT_WRITTEN
    /\ device_address = DEFAULT_SLAVE_ADDRESS
    /\ device_cell = DEFAULT_SLAVE_ADDRESS

\* no checksum computation is followed
Init ==
    /\ StaticInit
    /\ pec_input = <<>>
    /\ pec_fed = 0
    /\ pec = MLX90614_PEC_RESET_VALUE

\* what every call records about itself
Called(name, a, t, h, rdy, fl, lg, r) ==
    /\ op' = name
    /\ arg_addr' = a
    /\ arg_temp' = t
    /\ arg_hi2c' = h
    /\ ready' = rdy
    /\ fail' = fl
    /\ log' = lg
    /\ ret' = r
    /\ UNCHANGED pec_state

\* a probe test that takes only a timeout for a missing device
ProbeFailed_timeout_only(res) == res = HAL_TIMEOUT

\* a probe test that takes a protocol error for an answer
ProbeFailed_error_is_ready(res) == res \in {HAL_BUSY, HAL_TIMEOUT}

\* the test the callers of HAL_I2C_IsDeviceReady apply to its result in
\* init_mlx90614_module and set_mlx90614_module_slave_address
ProbeFailed(res) == res # HAL_OK

(***************************************************************************)
(* get_mlx90614_module_slave_address                                       *)
(***************************************************************************)
\* a getter that asks the bus whether the address answers
get_mlx90614_module_slave_address_probing ==
    /\ op = "none"
    /\ Called("get_mlx90614_module_slave_address", NO_ARG, NO_ARG, NULL,
              {}, HAL_TIMEOUT,
              <<EvIsDeviceReady(p_hi2c,
                    mlx90614_slave_address_one_bit_left_shifted, HAL_OK)>>,
              mlx90614_slave_address)
    /\ cell_after' = NO_ARG
    /\ dst' = NOT_WRITTEN
    /\ UNCHANGED device
    /\ UNCHANGED drv

get_mlx90614_module_slave_address ==
    /\ op = "none"
    /\ Called("get_mlx90614_module_slave_address", NO_ARG, NO_ARG, NULL,
              {}, HAL_TIMEOUT, <<>>, mlx90614_slave_address)
    /\ cell_after' = NO_ARG
    /\ dst' = NOT_WRITTEN
    /\ UNCHANGED device
    /\ UNCHANGED drv

(***************************************************************************)
(* set_mlx90614_module_slave_address                                       *)
(***************************************************************************)
\* the function body: the status returned, the new believed and wire address
\* and the HAL calls issued, for argument slave_address and probe answer res
\* an update that leaves the wire address behind
set_module_update_wire_stale(slave_address) ==
    [addr |-> slave_address,
     wire |-> mlx90614_slave_address_one_bit_left_shifted]

\* lines 217-218: the believed and the wire address after a ready probe
set_module_update(slave_address) ==
    [addr |-> slave_address, wire |-> Shl1(slave_address)]

set_module_body(slave_address, res) ==
    LET tmp_slave_addr_one_bit_left_shifted == Shl1(slave_address)
        probe == EvIsDeviceReady(p_hi2c, tmp_slave_addr_one_bit_left_shifted, res)
        same == [addr |-> mlx90614_slave_address,
                 wire |-> mlx90614_slave_address_one_bit_left_shifted]
    IN  IF IsInvalidSlaveAddress(slave_address)
        THEN same @@ [ret |-> MLX90614_EC_ERR, log |-> <<>>]
        ELSE IF res = NO_RET
        THEN same @@ [ret |-> NO_RET, log |-> <<probe>>]
        ELSE IF ProbeFailed(res)
        THEN same @@ [ret |-> MLX90614_EC_NR, log |-> <<probe>>]
        ELSE set_module_update(slave_address) @@
             [ret |-> MLX90614_EC_OK, log |-> <<probe>>]

set_mlx90614_module_slave_address ==
    /\ op = "none"
    /\ \E slave_address \in AddrArgs, fl \in HALFailure, fault \in Faults :
        \E rdy \in SUBSET {slave_address} :
          LET b == set_module_body(slave_address,
                       ProbeAnswer(p_hi2c, slave_address, rdy, fl, fault))
          IN  /\ mlx90614_slave_address' = b.addr
              /\ mlx90614_slave_address_one_bit_left_shifted' = b.wire
              /\ Called("set_mlx90614_module_slave_address", slave_address,
                        NO_ARG, NULL, rdy, fl, b.log, b.ret)
    /\ cell_after' = NO_ARG
    /\ dst' = NOT_WRITTEN
    /\ UNCHANGED device
    /\ UNCHANGED <<p_hi2c, unit_state>>

(***************************************************************************)
(* find_mlx90614_slave_address                                             *)
(***************************************************************************)
\* the values the loop counter takes while the loop condition holds: it starts
\* at the minimum valid address and is incremented as a uint8_t
\* a sweep that starts one address too high
find_counter_values_skip_min ==
    MLX90614_MIN_VALID_SLAVE_ADDRESS_VALUE + 1
        .. MLX90614_MAX_VALID_SLAVE_ADDRESS_VALUE_PLUS_ONE - 1

\* a sweep that starts at the universal address
find_counter_values_from_zero ==
    0 .. MLX90614_MAX_VALID_SLAVE_ADDRESS_VALUE_PLUS_ONE - 1

\* a sweep whose loop condition is <=
find_counter_values_through_plus_one ==
    MLX90614_MIN_VALID_SLAVE_ADDRESS_VALUE
        .. MLX90614_MAX_VALID_SLAVE_ADDRESS_VALUE_PLUS_ONE

find_counter_values ==
    {c \in MLX90614_MIN_VALID_SLAVE_ADDRESS_VALUE .. UINT8_MAX :
        \A d \in MLX90614_MIN_VALID_SLAVE_ADDRESS_VALUE .. c :
            d < MLX90614_MAX_VALID_SLAVE_ADDRESS_VALUE_PLUS_ONE}

\* the iteration at which the loop is left early, given the counter values
\* whose probe answers ready (or never returns): the first one
\* a sweep that keeps going and settles on the last answering address
find_exit_iteration_last(hits) == CHOOSE c \in hits : \A d \in hits : c >= d

find_exit_iteration(hits) == CHOOSE c \in hits : \A d \in hits : c <= d

\* a sweep that clears the believed address when nothing answers
find_not_found_disconfigured ==
    [addr |-> 0, wire |-> 0, ret |-> MLX90614_EC_NR]

\* line 194: the loop ran to its end, nothing was assigned
find_not_found ==
    [addr |-> mlx90614_slave_address,
     wire |-> mlx90614_slave_address_one_bit_left_shifted,
     ret |-> MLX90614_EC_NR]

\* the for loop: the body runs for each counter value in increasing order
\* until the first probe that answers ready; when none does the loop runs to
\* its end and the function returns MLX90614_EC_NR with nothing assigned
find_body(rdy, fl, fault) ==
    LET answer(c) == ProbeAnswer(p_hi2c, c, rdy, fl, fault)
        hits == {c \in find_counter_values : answer(c) \in {HAL_OK, NO_RET}}
        last == IF hits = {}
                THEN MLX90614_MAX_VALID_SLAVE_ADDRESS_VALUE_PLUS_ONE - 1
                ELSE find_exit_iteration(hits)
        iterations == {c \in find_counter_values : c <= last}
        first == CHOOSE c \in iterations : \A d \in iterations : c <= d
        probes == [i \in 1 .. Cardinality(iterations) |->
                     LET current_slave_address == first + i - 1
                     IN  EvIsDeviceReady(p_hi2c, Shl1(current_slave_address),
                                         answer(current_slave_address))]
    IN  IF hits = {}
        THEN find_not_found @@ [log |-> probes]
        ELSE IF answer(last) = NO_RET
        THEN [addr |-> mlx90614_slave_address,
              wire |-> mlx90614_slave_address_one_bit_left_shifted,
              ret |-> NO_RET, log |-> probes]
        ELSE [addr |-> last, wire |-> Shl1(last),
              ret |-> MLX90614_EC_OK, log |-> probes]

find_mlx90614_slave_address ==
    /\ op = "none"
    /\ \E rdy \in SUBSET SweepAnswers, fl \in HALFailure, fault \in Faults :
          LET b == find_body(rdy, fl, fault)
          IN  /\ mlx90614_slave_address' = b.addr
              /\ mlx90614_slave_address_one_bit_left_shifted' = b.wire
              /\ Called("find_mlx90614_slave_address", NO_ARG, NO_ARG, NULL,
                        rdy, fl, b.log, b.ret)
    /\ cell_after' = NO_ARG
    /\ dst' = NOT_WRITTEN
    /\ UNCHANGED device
    /\ UNCHANGED <<p_hi2c, unit_state>>

(***************************************************************************)
(* The switch over temp_t of init_mlx90614_module and                      *)
(* set_mlx90614_temperature_type: the conversion function of a unit,       *)
(* NULL_FN for the default branch.                                         *)
(***************************************************************************)
KELVIN_FN == "get_mlx90614_converted_temperature_in_kelvin"
CELSIUS_FN == "get_mlx90614_converted_temperature_in_celsius"
FAHRENHEIT_FN == "get_mlx90614_converted_temperature_in_fahrenheit"

\* a switch with the Celsius and the Fahrenheit branch exchanged
ConversionOf_swapped(temp_t) ==
    CASE temp_t = MLX90614_Temp_K -> KELVIN_FN
      [] temp_t = MLX90614_Temp_C -> FAHRENHEIT_FN
      [] temp_t = MLX90614_Temp_F -> CELSIUS_FN
      [] OTHER -> NULL_FN

ConversionOf(temp_t) ==
    CASE temp_t = MLX90614_Temp_K -> KELVIN_FN
      [] temp_t = MLX90614_Temp_C -> CELSIUS_FN
      [] temp_t = MLX90614_Temp_F -> FAHRENHEIT_FN
      [] OTHER -> NULL_FN

(***************************************************************************)
(* init_mlx90614_module                                                    *)
(***************************************************************************)
\* an else branch that does not recompute the wire address
init_keep_slave_address_wire_stale ==
    [addr |-> mlx90614_slave_address,
     wire |-> mlx90614_slave_address_one_bit_left_shifted, log |-> <<>>]

\* lines 142-145: slave_address is 0, the believed address stays and the wire
\* address is computed from it
init_keep_slave_address ==
    [addr |-> mlx90614_slave_address,
     wire |-> Shl1(mlx90614_slave_address), log |-> <<>>]

\* a failed probe after which the new handle is stored all the same
init_not_ready_handle_stored(hi2c) ==
    [h |-> hi2c, addr |-> mlx90614_slave_address,
     wire |-> mlx90614_slave_address_one_bit_left_shifted,
     type |-> mlx90614_temperature_type,
     conv |-> p_get_mlx90614_converted_temperature,
     ret |-> MLX90614_EC_NR]

\* lines 135-138: the return after a failed probe, before any assignment
init_not_ready(hi2c) ==
    [h |-> p_hi2c, addr |-> mlx90614_slave_address,
     wire |-> mlx90614_slave_address_one_bit_left_shifted,
     type |-> mlx90614_temperature_type,
     conv |-> p_get_mlx90614_converted_temperature,
     ret |-> MLX90614_EC_NR]

init_body(hi2c, slave_address, temp_t, res) ==
    LET tmp_slave_addr_one_bit_left_shifted == Shl1(slave_address)
        probe == EvIsDeviceReady(p_hi2c, tmp_slave_addr_one_bit_left_shifted, res)
        same == [h |-> p_hi2c, addr |-> mlx90614_slave_address,
                 wire |-> mlx90614_slave_address_one_bit_left_shifted,
                 type |-> mlx90614_temperature_type,
                 conv |-> p_get_mlx90614_converted_temperature]
        \* lines 131-145: the believed and the wire address after the if/else
        a == IF slave_address # 0
             THEN [addr |-> slave_address,
                   wire |-> tmp_slave_addr_one_bit_left_shifted,
                   log |-> <<probe>>]
             ELSE init_keep_slave_address
    IN  IF slave_address > MLX90614_MAX_VALID_SLAVE_ADDRESS_VALUE
        THEN same @@ [ret |-> MLX90614_EC_ERR, log |-> <<>>]
        ELSE IF slave_address # 0 /\ res = NO_RET
        THEN same @@ [ret |-> NO_RET, log |-> <<probe>>]
        ELSE IF slave_address # 0 /\ ProbeFailed(res)
        THEN init_not_ready(hi2c) @@ [log |-> <<probe>>]
        ELSE IF ConversionOf(temp_t) = NULL_FN
        THEN [h |-> hi2c, addr |-> a.addr, wire |-> a.wire,
              type |-> mlx90614_temperature_type,
              conv |-> p_get_mlx90614_converted_temperature,
              ret |-> MLX90614_EC_ERR, log |-> a.log]
        ELSE [h |-> hi2c, addr |-> a.addr, wire |-> a.wire,
              type |-> temp_t, conv |-> ConversionOf(temp_t),
              ret |-> MLX90614_EC_OK, log |-> a.log]

init_mlx90614_module ==
    /\ op = "none"
    /\ \E hi2c \in Handles, slave_address \in AddrArgs, temp_t \in TempArgs,
          fl \in HALFailure, fault \in Faults :
        \E rdy \in SUBSET {slave_address} :
          LET b == init_body(hi2c, slave_address, temp_t,
                       ProbeAnswer(p_hi2c, slave_address, rdy, fl, fault))
          IN  /\ p_hi2c' = b.h
              /\ mlx90614_slave_address' = b.addr
              /\ mlx90614_slave_address_one_bit_left_shifted' = b.wire
              /\ mlx90614_temperature_type' = b.type
              /\ p_get_mlx90614_converted_temperature' = b.conv
              /\ Called("init_mlx90614_module", slave_address, temp_t, hi2c,
                        rdy, fl, b.log, b.ret)
    /\ cell_after' = NO_ARG
    /\ dst' = NOT_WRITTEN
    /\ UNCHANGED device

(***************************************************************************)
(* get_mlx90614_temperature_type and set_mlx90614_temperature_type         *)
(***************************************************************************)
get_mlx90614_temperature_type ==
    /\ op = "none"
    /\ Called("get_mlx90614_temperature_type", NO_ARG, NO_ARG, NULL,
              {}, HAL_TIMEOUT, <<>>, mlx90614_temperature_type)
    /\ cell_after' = NO_ARG
    /\ dst' = NOT_WRITTEN
    /\ UNCHANGED device
    /\ UNCHANGED drv

\* a default branch that stores the unrecognised value all the same
set_temperature_type_default_stores(temp_t) ==
    [type |-> temp_t,
     conv |-> p_get_mlx90614_converted_temperature,
     ret |-> MLX90614_EC_ERR]

\* lines 306-307: the default branch of the switch returns before line 309
set_temperature_type_default(temp_t) ==
    [type |-> mlx90614_temperature_type,
     conv |-> p_get_mlx90614_converted_temperature,
     ret |-> MLX90614_EC_ERR]

set_temperature_type_body(temp_t) ==
    IF ConversionOf(temp_t) = NULL_FN
    THEN set_temperature_type_default(temp_t)
    ELSE [type |-> temp_t, conv |-> ConversionOf(temp_t),
          ret |-> MLX90614_EC_OK]

set_mlx90614_temperature_type ==
    /\ op = "none"
    /\ \E temp_t \in TempArgs :
          LET b == set_temperature_type_body(temp_t)
          IN  /\ mlx90614_temperature_type' = b.type
              /\ p_get_mlx90614_converted_temperature' = b.conv
              /\ Called("set_mlx90614_temperature_type", NO_ARG, temp_t, NULL,
                        {}, HAL_TIMEOUT, <<>>, b.ret)
    /\ cell_after' = NO_ARG
    /\ dst' = NOT_WRITTEN
    /\ UNCHANGED device
    /\ UNCHANGED <<p_hi2c, addr_state>>

(***************************************************************************)
(* set_mlx90614_device_slave_address                                       *)
(***************************************************************************)
\* a PEC over the three command bytes alone
command_pec_without_address(w, b0, b1, b2) ==
    calculate_pec(calculate_pec(
        calculate_pec(MLX90614_PEC_RESET_VALUE, b0), b1), b2)

\* the PEC of a 4 byte write command sent to wire address w: lines 249-252
\* and 265-268
command_pec(w, b0, b1, b2) ==
    calculate_pec(calculate_pec(calculate_pec(
        calculate_pec(MLX90614_PEC_RESET_VALUE, w), b0), b1), b2)

\* an erase whose result is not looked at
set_device_erase_unchecked(r2) == FALSE

\* lines 254-258: the erase did not succeed
set_device_erase_failed(r2) == HAL_ret_handler(r2) # HAL_OK

\* an update that forgets the wire address
set_device_update_addr_only(new_slave_address) ==
    [addr |-> new_slave_address,
     wire |-> mlx90614_slave_address_one_bit_left_shifted]

\* lines 278-279: the believed and the wire address after the rewrite
set_device_update(new_slave_address) ==
    [addr |-> new_slave_address, wire |-> Shl1(new_slave_address)]

\* a rewrite that does not wait after the erase
set_device_calls_one_delay(ev_read, ev_erase, ev_delay, ev_write) ==
    <<ev_read, ev_erase, ev_write, ev_delay>>

\* lines 238, 253, 259, 269, 275: the HAL calls of a rewrite whose three
\* transactions succeed
set_device_calls(ev_read, ev_erase, ev_delay, ev_write) ==
    <<ev_read, ev_erase, ev_delay, ev_write, ev_delay>>

\* the function body, for the results r1, r2, r3 of the read, the erase and
\* the write and the two bytes d0, d1 a successful read delivers
set_device_body(new_slave_address, r1, d0, d1, r2, r3) ==
    LET w == mlx90614_slave_address_one_bit_left_shifted
        same == [addr |-> mlx90614_slave_address, wire |-> w]
        \* STEP 1
        received_i2cdata == IF r1 = HAL_OK THEN <<d0, d1>> ELSE <<0, 0>>
        ev_read == EvMemRead(p_hi2c, w, MLX90614_SLAVE_ADDRESS_EEPROM_ADDRESS,
                       MLX90614_EEPROM_SLAVE_ADDRESS_SIZE,
                       IF r1 = HAL_OK THEN <<d0, d1>> ELSE <<>>, r1)
        \* STEP 2
        erase_value ==
            <<MLX90614_SLAVE_ADDRESS_EEPROM_ADDRESS,
              MLX90614_SLAVE_ADDRESS_EEPROM_ERASE_VALUE,
              MLX90614_SLAVE_ADDRESS_EEPROM_ERASE_VALUE,
              command_pec(w, MLX90614_SLAVE_ADDRESS_EEPROM_ADDRESS,
                          MLX90614_SLAVE_ADDRESS_EEPROM_ERASE_VALUE,
                          MLX90614_SLAVE_ADDRESS_EEPROM_ERASE_VALUE)>>
        ev_erase == EvMasterTransmit(p_hi2c, w, erase_value, r2)
        \* STEP 3
        write_value ==
            <<MLX90614_SLAVE_ADDRESS_EEPROM_ADDRESS, new_slave_address,
              received_i2cdata[2],
              command_pec(w, MLX90614_SLAVE_ADDRESS_EEPROM_ADDRESS,
                          new_slave_address, received_i2cdata[2])>>
        ev_write == EvMasterTransmit(p_hi2c, w, write_value, r3)
        ev_delay == EvDelay(MLX90614_ERASE_OR_WRITE_CELL_TIME)
    IN  IF IsInvalidSlaveAddress(new_slave_address)
        THEN same @@ [ret |-> MLX90614_EC_ERR, log |-> <<>>]
        ELSE IF r1 = NO_RET
        THEN same @@ [ret |-> NO_RET, log |-> <<ev_read>>]
        ELSE IF HAL_ret_handler(r1) # HAL_OK
        THEN same @@ [ret |-> HAL_ret_handler(r1), log |-> <<ev_read>>]
        ELSE IF set_device_erase_failed(r2)
        THEN same @@ [ret |-> HAL_ret_handler(r2),
                      log |-> <<ev_read, ev_erase>>]
        ELSE IF HAL_ret_handler(r3) # HAL_OK
        THEN same @@ [ret |-> HAL_ret_handler(r3),
                      log |-> <<ev_read, ev_erase, ev_delay, ev_write>>]
        ELSE set_device_update(new_slave_address) @@
             [ret |-> MLX90614_EC_OK,
              log |-> set_device_calls(ev_read, ev_erase, ev_delay,
                                       ev_write)]

\* what the device's address cell may hold once the write command was
\* acknowledged: the new address, the erased value, or still the old content
\* (some devices do not take the rewrite)
CellAfterWrite(new_slave_address, d0) ==
    {new_slave_address, MLX90614_SLAVE_ADDRESS_EEPROM_ERASE_VALUE, d0}

set_mlx90614_device_slave_address ==
    /\ op = "none"
    /\ \E new_slave_address \in AddrArgs, fault \in Faults,
          r1 \in HALStatus, r2 \in HALStatus, r3 \in HALStatus,
          d0 \in LowBytes, d1 \in HighBytes :
          LET b == set_device_body(new_slave_address,
                       IF fault THEN NO_RET ELSE r1, d0, d1, r2, r3)
          IN  /\ mlx90614_slave_address' = b.addr
              /\ mlx90614_slave_address_one_bit_left_shifted' = b.wire
              /\ Called("set_mlx90614_device_slave_address",
                        new_slave_address, NO_ARG, NULL, {}, HAL_TIMEOUT,
                        b.log, b.ret)
              /\ cell_after' \in
                    IF b.ret = MLX90614_EC_OK
                    THEN CellAfterWrite(new_slave_address, d0)
                    ELSE {NO_ARG}
    /\ dst' = NOT_WRITTEN
    /\ UNCHANGED <<p_hi2c, unit_state, device>>

(***************************************************************************)
(* The conversion functions.  A temperature is held in thousandths of a    *)
(* degree, the scale at which the three formulas are exact for every       *)
(* uint16_t raw value: raw/50.0 is 20*raw thousandths, 273.15 is 273150    *)
(* thousandths, and 20*raw - 273150 is a multiple of 10, so the product    *)
(* with 1.8 is a whole number of thousandths.  The rounding of the result  *)
(* to a float is not modelled.                                             *)
(***************************************************************************)
\* a Kelvin conversion that divides by 5.0
get_mlx90614_converted_temperature_in_kelvin_by_five(raw_temp) ==
    raw_temp * 200

\* a Kelvin conversion that divides in integers
get_mlx90614_converted_temperature_in_kelvin_truncated(raw_temp) ==
    (raw_temp \div 50) * 1000

get_mlx90614_converted_temperature_in_kelvin(raw_temp) ==
    raw_temp * 20

\* a Celsius conversion that subtracts 273.16
get_mlx90614_converted_temperature_in_celsius_triple_point(raw_temp) ==
    raw_temp * 20 - 273160

get_mlx90614_converted_temperature_in_celsius(raw_temp) ==
    raw_temp * 20 - 273150

get_mlx90614_converted_temperature_in_fahrenheit(raw_temp) ==
    ((raw_temp * 20 - 273150) * 18) \div 10 + 32000

(***************************************************************************)
(* The call through p_get_mlx90614_converted_temperature: what it          *)
(* delivers, <<>> when it never returns.  A call through the null function *)
(* pointer is undefined: the program faults or the call comes back with    *)
(* some float, for which the results of the three functions stand.         *)
(***************************************************************************)
call_converted_temperature(fn, raw_temp) ==
    CASE fn = KELVIN_FN ->
           {<<get_mlx90614_converted_temperature_in_kelvin(raw_temp)>>}
      [] fn = CELSIUS_FN ->
           {<<get_mlx90614_converted_temperature_in_celsius(raw_temp)>>}
      [] fn = FAHRENHEIT_FN ->
           {<<get_mlx90614_converted_temperature_in_fahrenheit(raw_temp)>>}
      [] OTHER ->
           {<<>>,
            <<get_mlx90614_converted_temperature_in_kelvin(raw_temp)>>,
            <<get_mlx90614_converted_temperature_in_celsius(raw_temp)>>,
            <<get_mlx90614_converted_temperature_in_fahrenheit(raw_temp)>>}

(***************************************************************************)
(* get_mlx90614_ambient_temperature, get_mlx90614_object1_temperature and  *)
(* get_mlx90614_object2_temperature: the three bodies differ in the RAM    *)
(* address they read only.                                                 *)
(***************************************************************************)
\* a flag test that lets 0x8000 through
raw_temp_has_error_flag_above_0x8000(raw_temp) == raw_temp > 32768

\* lines 332, 359 and 386: the device raised its error flag
raw_temp_has_error_flag(raw_temp) == raw_temp > 32767

\* the function body, for the result res of the read, the two bytes b0, b1 a
\* successful read delivers and the outcome out of the conversion call
channel_read_body(reg, res, b0, b1, out) ==
    LET i2cdata == <<b0, b1>>
        ev_read == EvMemRead(p_hi2c,
                       mlx90614_slave_address_one_bit_left_shifted, reg,
                       MLX90614_TEMPERATURE_RESULT_SIZE,
                       IF res = HAL_OK THEN i2cdata ELSE <<>>, res)
        raw_temp == (i2cdata[2] * 256 + i2cdata[1]) % 65536
    IN  IF res = NO_RET
        THEN [ret |-> NO_RET, dst |-> NOT_WRITTEN, log |-> <<ev_read>>]
        ELSE IF HAL_ret_handler(res) # HAL_OK
        THEN [ret |-> HAL_ret_handler(res), dst |-> NOT_WRITTEN,
              log |-> <<ev_read>>]
        ELSE IF raw_temp_has_error_flag(raw_temp)
        THEN [ret |-> MLX90614_EC_ERR, dst |-> NOT_WRITTEN,
              log |-> <<ev_read>>]
        ELSE IF out = <<>>
        THEN [ret |-> NO_RET, dst |-> NOT_WRITTEN, log |-> <<ev_read>>]
        ELSE [ret |-> MLX90614_EC_OK, dst |-> out, log |-> <<ev_read>>]

\* one call of a channel read against an unconstrained bus
channel_read(name, reg) ==
    /\ op = "none"
    /\ \E res \in HALStatus, fault \in Faults, raw \in RawTemps :
        \E out \in call_converted_temperature(
                       p_get_mlx90614_converted_temperature, raw) :
          LET b == channel_read_body(reg, IF fault THEN NO_RET ELSE res,
                                     raw % 256, raw \div 256, out)
          IN  /\ Called(name, NO_ARG, NO_ARG, NULL, {}, HAL_TIMEOUT,
                        b.log, b.ret)
              /\ dst' = b.dst
    /\ cell_after' = NO_ARG
    /\ UNCHANGED <<drv, device>>

get_mlx90614_ambient_temperature ==
    channel_read("get_mlx90614_ambient_temperature", MLX90614_TA_RAM_ADDRESS)

\* an object1 read that asks for the ambient register
get_mlx90614_object1_temperature_at_ta ==
    channel_read("get_mlx90614_object1_temperature", MLX90614_TA_RAM_ADDRESS)

get_mlx90614_object1_temperature ==
    channel_read("get_mlx90614_object1_temperature",
                 MLX90614_TOBJ1_RAM_ADDRESS)

get_mlx90614_object2_temperature ==
    channel_read("get_mlx90614_object2_temperature",
                 MLX90614_TOBJ2_RAM_ADDRESS)

(***************************************************************************)
(* The application has looked at the returned status and is about to make  *)
(* its next call.                                                          *)
(***************************************************************************)
application_continues ==
    /\ op # "none"
    /\ ~halted
    /\ op' = "none"
    /\ arg_addr' = NO_ARG
    /\ arg_temp' = NO_ARG
    /\ arg_hi2c' = NULL
    /\ ready' = {}
    /\ fail' = HAL_TIMEOUT
    /\ cell_after' = NO_ARG
    /\ dst' = NOT_WRITTEN
    /\ UNCHANGED device
    /\ log' = <<>>
    /\ ret' = NO_RET
    /\ UNCHANGED <<drv, pec_state>>

Next ==
    \/ init_mlx90614_module
    \/ find_mlx90614_slave_address
    \/ get_mlx90614_module_slave_address
    \/ set_mlx90614_module_slave_address
    \/ set_mlx90614_device_slave_address
    \/ get_mlx90614_temperature_type
    \/ set_mlx90614_temperature_type
    \/ get_mlx90614_ambient_temperature
    \/ get_mlx90614_object1_temperature
    \/ get_mlx90614_object2_temperature
    \/ application_continues

Spec == Init /\ [][Next]_vars

(***************************************************************************)
(* The driver on a bus that holds one MLX90614 and nothing else.  The      *)
(* sensor answers at the slave address it loaded from its address cell     *)
(* when it was last powered; an acknowledged erase or write command        *)
(* changes the cell and not that address; a power cycle loads the cell.    *)
(* A transaction sent to another address gets no response and times out,   *)
(* one sent to the sensor may still fail on the bus.  The application      *)
(* calls init_mlx90614_module before any function that uses the bus.       *)
(***************************************************************************)
\* the results a transaction sent to wire address w can have
DeviceTransport(w) ==
    IF w = Shl1(device_address) THEN HALStatus ELSE {HAL_TIMEOUT}

\* the addresses that answer a readiness probe of address a; a probe through
\* the null handle does not reach the bus and may report anything
DeviceProbe(a) ==
    IF p_hi2c = NULL THEN SUBSET {a} ELSE {{a} \cap {device_address}}

\* the address cell after the HAL calls lg of a rewrite: an acknowledged
\* command stores its low byte, the erase command a zero
DeviceCellAfter(lg) ==
    LET acked == {i \in 1 .. Len(lg) :
                    /\ lg[i].k = "HAL_I2C_Master_Transmit"
                    /\ lg[i].res = HAL_OK}
    IN  IF acked = {} THEN device_cell
        ELSE lg[CHOOSE i \in acked : \A j \in acked : i >= j].data[2]

init_mlx90614_module_on_device ==
    /\ op = "none"
    /\ \E hi2c \in Handles, slave_address \in AddrArgs, temp_t \in TempArgs,
          fault \in Faults :
        \E rdy \in DeviceProbe(slave_address) :
          LET b == init_body(hi2c, slave_address, temp_t,
                       ProbeAnswer(p_hi2c, slave_address, rdy, HAL_TIMEOUT,
                                   fault))
          IN  /\ p_hi2c' = b.h
              /\ mlx90614_slave_address' = b.addr
              /\ mlx90614_slave_address_one_bit_left_shifted' = b.wire
              /\ mlx90614_temperature_type' = b.type
              /\ p_get_mlx90614_converted_temperature' = b.conv
              /\ Called("init_mlx90614_module", slave_address, temp_t, hi2c,
                        rdy, HAL_TIMEOUT, b.log, b.ret)
    /\ cell_after' = NO_ARG
    /\ dst' = NOT_WRITTEN
    /\ UNCHANGED device

find_mlx90614_slave_address_on_device ==
    /\ op = "none"
    /\ p_hi2c # NULL
    /\ LET rdy == {device_address} \cap find_counter_values
           b == find_body(rdy, HAL_TIMEOUT, FALSE)
       IN  /\ mlx90614_slave_address' = b.addr
           /\ mlx90614_slave_address_one_bit_left_shifted' = b.wire
           /\ Called("find_mlx90614_slave_address", NO_ARG, NO_ARG, NULL,
                     rdy, HAL_TIMEOUT, b.log, b.ret)
    /\ cell_after' = NO_ARG
    /\ dst' = NOT_WRITTEN
    /\ UNCHANGED <<p_hi2c, unit_state, device>>

set_mlx90614_module_slave_address_on_device ==
    /\ op = "none"
    /\ p_hi2c # NULL
    /\ \E slave_address \in AddrArgs :
        \E rdy \in DeviceProbe(slave_address) :
          LET b == set_module_body(slave_address,
                       ProbeAnswer(p_hi2c, slave_address, rdy, HAL_TIMEOUT,
                                   FALSE))
          IN  /\ mlx90614_slave_address' = b.addr
              /\ mlx90614_slave_address_one_bit_left_shifted' = b.wire
              /\ Called("set_mlx90614_module_slave_address", slave_address,
                        NO_ARG, NULL, rdy, HAL_TIMEOUT, b.log, b.ret)
    /\ cell_after' = NO_ARG
    /\ dst' = NOT_WRITTEN
    /\ UNCHANGED <<p_hi2c, unit_state, device>>

set_mlx90614_device_slave_address_on_device ==
    /\ op = "none"
    /\ p_hi2c # NULL
    /\ \E new_slave_address \in AddrArgs, d1 \in HighBytes,
          r1 \in DeviceTransport(mlx90614_slave_address_one_bit_left_shifted),
          r2 \in DeviceTransport(mlx90614_slave_address_one_bit_left_shifted),
          r3 \in DeviceTransport(mlx90614_slave_address_one_bit_left_shifted) :
          LET b == set_device_body(new_slave_address, r1, device_cell, d1,
                                   r2, r3)
          IN  /\ mlx90614_slave_address' = b.addr
              /\ mlx90614_slave_address_one_bit_left_shifted' = b.wire
              /\ Called("set_mlx90614_device_slave_address",
                        new_slave_address, NO_ARG, NULL, {}, HAL_TIMEOUT,
                        b.log, b.ret)
              /\ device_cell' = DeviceCellAfter(b.log)
              /\ cell_after' = IF b.ret = MLX90614_EC_OK
                               THEN DeviceCellAfter(b.log) ELSE NO_ARG
    /\ dst' = NOT_WRITTEN
    /\ UNCHANGED <<p_hi2c, unit_state, device_address>>

channel_read_on_device(name, reg) ==
    /\ op = "none"
    /\ p_hi2c # NULL
    /\ \E raw \in RawTemps,
          res \in DeviceTransport(
                      mlx90614_slave_address_one_bit_left_shifted) :
        \E out \in call_converted_temperature(
                       p_get_mlx90614_converted_temperature, raw) :
          LET b == channel_read_body(reg, res, raw % 256, raw \div 256, out)
          IN  /\ Called(name, NO_ARG, NO_ARG, NULL, {}, HAL_TIMEOUT,
                        b.log, b.ret)
              /\ dst' = b.dst
    /\ cell_after' = NO_ARG
    /\ UNCHANGED <<drv, device>>

get_mlx90614_ambient_temperature_on_device ==
    channel_read_on_device("get_mlx90614_ambient_temperature",
                           MLX90614_TA_RAM_ADDRESS)

get_mlx90614_object1_temperature_on_device ==
    channel_read_on_device("get_mlx90614_object1_temperature",
                           MLX90614_TOBJ1_RAM_ADDRESS)

get_mlx90614_object2_temperature_on_device ==
    channel_read_on_device("get_mlx90614_object2_temperature",
                           MLX90614_TOBJ2_RAM_ADDRESS)

\* somebody switches the sensor off and on between two calls of the driver:
\* the sensor loads its address cell, no variable of the driver changes
power_cycle ==
    /\ op = "none"
    /\ device_address' = device_cell
    /\ UNCHANGED <<drv, op, arg_addr, arg_temp, arg_hi2c, ready, fail,
                   cell_after, log, ret, dst, device_cell, pec_state>>

NextOnDevice ==
    \/ init_mlx90614_module_on_device
    \/ find_mlx90614_slave_address_on_device
    \/ get_mlx90614_module_slave_address
    \/ set_mlx90614_module_slave_address_on_device
    \/ set_mlx90614_device_slave_address_on_device
    \/ get_mlx90614_temperature_type
    \/ set_mlx90614_temperature_type
    \/ get_mlx90614_ambient_temperature_on_device
    \/ get_mlx90614_object1_temperature_on_device
    \/ get_mlx90614_object2_temperature_on_device
    \/ application_continues
    \/ power_cycle

SpecOnDevice == Init /\ [][NextOnDevice]_vars

(***************************************************************************)
(* calculate_pec on its own: a byte sequence is chosen and the function is *)
(* called once per byte, each call taking the result of the call before    *)
(* as init_pec, the way lines 249-252 and 265-268 chain the calls from     *)
(* MLX90614_PEC_RESET_VALUE.                                               *)
(***************************************************************************)
\* the 4 bytes a checksum of set_mlx90614_device_slave_address covers: the
\* wire address, the EEPROM address and the two payload bytes
PecCommands ==
    {<<Shl1(a), MLX90614_SLAVE_ADDRESS_EEPROM_ADDRESS, lo, hi>> :
        a \in LowBytes \cup {DEFAULT_SLAVE_ADDRESS},
        lo \in 0 .. UINT8_MAX, hi \in HighBytes}

\* the byte sequences: every single byte, the ASCII digits "123456789" and
\* the command bytes
PecInputs ==
    {<<b>> : b \in 0 .. UINT8_MAX}
    \cup {<<49, 50, 51, 52, 53, 54, 55, 56, 57>>}
    \cup PecCommands

InitPec ==
    /\ StaticInit
    /\ pec_input \in PecInputs
    /\ pec_fed = 0
    /\ pec = MLX90614_PEC_RESET_VALUE

calculate_pec_call ==
    /\ pec_fed < Len(pec_input)
    /\ pec' = calculate_pec(pec, pec_input[pec_fed + 1])
    /\ pec_fed' = pec_fed + 1
    /\ UNCHANGED <<drv, op, arg_addr, arg_temp, arg_hi2c, ready, fail,
                   cell_after, log, ret, dst, device, pec_input>>

NextPec == calculate_pec_call

SpecPec == InitPec /\ [][NextPec]_vars

(***************************************************************************)
(* Vocabulary of the properties.                                           *)
(***************************************************************************)
SET_MODULE == "set_mlx90614_module_slave_address"
SET_DEVICE == "set_mlx90614_device_slave_address"
FIND == "find_mlx90614_slave_address"

\* the believed and the wire address are what they were before the step
AddressKept ==
    /\ mlx90614_slave_address' = mlx90614_slave_address
    /\ mlx90614_slave_address_one_bit_left_shifted' =
           mlx90614_slave_address_one_bit_left_shifted

\* the shared status mapping as the specification words it
MappedStatus(res) ==
    IF res \in {HAL_BUSY, HAL_TIMEOUT} THEN MLX90614_EC_NR
    ELSE IF res = HAL_ERROR THEN MLX90614_EC_ERR
    ELSE MLX90614_EC_OK

IsTransport(e) == e.k \in {"HAL_I2C_Mem_Read", "HAL_I2C_Master_Transmit"}
IsTransmit(e) == e.k = "HAL_I2C_Master_Transmit"
\* an erase command: both payload bytes zeroed
IsErase(e) ==
    /\ IsTransmit(e)
    /\ e.data[2] = MLX90614_SLAVE_ADDRESS_EEPROM_ERASE_VALUE
    /\ e.data[3] = MLX90614_SLAVE_ADDRESS_EEPROM_ERASE_VALUE
\* a write command: the payload carries an address
IsWrite(e) == IsTransmit(e) /\ ~IsErase(e)

LogIndices(lg) == 1 .. Len(lg)

C2_SetModuleAtomicOnNoAnswer ==
    [][(/\ op' = SET_MODULE
        /\ arg_addr' \in ValidAddresses
        /\ arg_addr' \notin ready'
        /\ ~halted')
        => (ret' = MLX90614_EC_NR /\ AddressKept)]_vars

\* an in-range address other than the believed one got a protocol error from
\* the probe
C2_Witness ==
    /\ op = SET_MODULE
    /\ arg_addr \in ValidAddresses
    /\ arg_addr # mlx90614_slave_address
    /\ Len(log) = 1
    /\ log[1].res = HAL_ERROR
    /\ ret = MLX90614_EC_NR

\* C3: when exactly one address k, within the valid range, answers ready,
\* find_mlx90614_slave_address returns MLX90614_EC_OK and the believed address
\* is k and the wire address 2*k.
C3_FindSingleResponder ==
    (op = FIND /\ ~halted /\ Cardinality(ready) = 1
        /\ ready \subseteq ValidAddresses)
    => /\ ret = MLX90614_EC_OK
       /\ ready = {mlx90614_slave_address}
       /\ mlx90614_slave_address_one_bit_left_shifted
              = 2 * mlx90614_slave_address

\* the sweep found the single responder at the lowest valid address
C3_Witness ==
    /\ op = FIND
    /\ ready = {MLX90614_MIN_VALID_SLAVE_ADDRESS_VALUE}
    /\ ret = MLX90614_EC_OK
    /\ mlx90614_slave_address = MLX90614_MIN_VALID_SLAVE_ADDRESS_VALUE

C5_FindLowestResponder ==
    (op = FIND /\ ~halted /\ Cardinality(ready \cap ValidAddresses) >= 2)
    => /\ \A i \in LogIndices(log) :
            /\ log[i].k = "HAL_I2C_IsDeviceReady"
            /\ log[i].w <= 2 * mlx90614_slave_address
            /\ i < Len(log) => log[i].w < log[i + 1].w
       /\ mlx90614_slave_address \in ready \cap ValidAddresses
       /\ \A a \in ready \cap ValidAddresses : mlx90614_slave_address <= a

\* two in-range addresses answer and the lower one is not the first probed
C5_Witness ==
    /\ op = FIND
    /\ ret = MLX90614_EC_OK
    /\ Cardinality(ready \cap ValidAddresses) >= 2
    /\ MLX90614_MIN_VALID_SLAVE_ADDRESS_VALUE \notin ready
    /\ Len(log) >= 2

\* C6: in set_mlx90614_device_slave_address every write command is preceded
\* by the erase command, and when the erase does not succeed the function
\* returns the mapped status of that result and the write is never sent.
C6_EraseBeforeWrite ==
    op = SET_DEVICE
    => /\ \A i \in LogIndices(log) :
            IsWrite(log[i]) => \E j \in 1 .. i - 1 : IsErase(log[j])
       /\ \A j \in LogIndices(log) :
            (IsErase(log[j]) /\ log[j].res # HAL_OK)
            => /\ ret = MappedStatus(log[j].res)
               /\ \A i \in LogIndices(log) : ~IsWrite(log[i])

\* the erase command failed with a protocol error
C6_Witness ==
    /\ op = SET_DEVICE
    /\ Len(log) = 2
    /\ IsErase(log[2])
    /\ log[2].res = HAL_ERROR
    /\ ret = MLX90614_EC_ERR

\* C7: in set_mlx90614_device_slave_address, after the first of the read, the
\* erase and the write whose result is not success nothing more is issued (no
\* transaction, no delay), the believed and the wire address are unchanged and
\* the status returned is busy/timeout -> NR, protocol error -> ERR.
C7_FirstFailureAborts ==
    [][op' = SET_DEVICE
        => \A i \in LogIndices(log') :
            (IsTransport(log'[i]) /\ log'[i].res \in HALFailure)
            => /\ Len(log') = i
               /\ AddressKept
               /\ ret' = MappedStatus(log'[i].res)]_vars

\* the write command, the third transport call, was answered busy
C7_Witness ==
    /\ op = SET_DEVICE
    /\ Len(log) = 4
    /\ IsWrite(log[4])
    /\ log[4].res = HAL_BUSY
    /\ ret = MLX90614_EC_NR

\* C8: after the write, set_mlx90614_device_slave_address reads the address
\* cell back and, when the device reports another address than the requested
\* one, returns MLX90614_EC_ERR without updating the believed address.
C8_ReadBackMismatchFails ==
    [][(/\ op' = SET_DEVICE
        /\ \E i \in LogIndices(log') : IsWrite(log'[i]) /\ log'[i].res = HAL_OK
        /\ cell_after' # arg_addr')
        => /\ ret' = MLX90614_EC_ERR
           /\ mlx90614_slave_address' = mlx90614_slave_address]_vars

ChannelReads ==
    {"get_mlx90614_ambient_temperature", "get_mlx90614_object1_temperature",
     "get_mlx90614_object2_temperature"}
SET_TYPE == "set_mlx90614_temperature_type"
GET_TYPE == "get_mlx90614_temperature_type"
Units == {MLX90614_Temp_K, MLX90614_Temp_C, MLX90614_Temp_F}

\* the last call was a channel read: its transport read
TransportRead == log[1]
\* the raw value r = b0 + 256*b1 of the two bytes a read delivered
RawOf(e) == e.data[1] + 256 * e.data[2]

\* v thousandths of a degree is the value the specification's formula of unit
\* u gives for the raw value r: Kelvin = r/50, Celsius = r/50 - 273.15,
\* Fahrenheit = (r/50 - 273.15) * 1.8 + 32, each cleared of its fractions
IsFormulaValue(u, r, v) ==
    CASE u = MLX90614_Temp_K -> 50 * v = 1000 * r
      [] u = MLX90614_Temp_C -> 50 * (v + 273150) = 1000 * r
      [] u = MLX90614_Temp_F ->
             500 * (v - 32000) = 18 * (1000 * r - 50 * 273150)
      [] OTHER -> FALSE

\* C12: a channel read (ambient, object1 or object2) whose transport read
\* succeeds with a raw value r, 0x8000 <= r <= 0xFFFF, returns
\* MLX90614_EC_ERR and stores nothing into the output location, whatever unit
\* is selected.
C12_ErrorFlagNeverConverted ==
    (/\ op \in ChannelReads
     /\ TransportRead.res = HAL_OK
     /\ RawOf(TransportRead) \in 32768 .. 65535)
    => (ret = MLX90614_EC_ERR /\ dst = NOT_WRITTEN)

\* with Celsius selected the object2 read delivered exactly 0x8000
C12_Witness ==
    /\ op = "get_mlx90614_object2_temperature"
    /\ p_get_mlx90614_converted_temperature = CELSIUS_FN
    /\ TransportRead.res = HAL_OK
    /\ RawOf(TransportRead) = 32768
    /\ ret = MLX90614_EC_ERR

\* C13: a channel read whose transport read is busy, times out or reports a
\* protocol error returns the mapped status (MLX90614_EC_NR for busy and
\* timeout, MLX90614_EC_ERR for error) after that single HAL call, with no
\* bytes taken and nothing stored into the output location.
C13_TransportFailureShortCircuits ==
    (op \in ChannelReads /\ TransportRead.res \in HALFailure)
    => /\ ret = MappedStatus(TransportRead.res)
       /\ Len(log) = 1
       /\ TransportRead.data = <<>>
       /\ dst = NOT_WRITTEN

\* with a unit selected the ambient read got a protocol error
C13_Witness ==
    /\ op = "get_mlx90614_ambient_temperature"
    /\ p_get_mlx90614_converted_temperature # NULL_FN
    /\ TransportRead.res = HAL_ERROR
    /\ ret = MLX90614_EC_ERR

\* C14: once a unit is selected, a channel read whose transport read succeeds
\* with bytes (b0, b1), r = b0 + 256*b1 <= 0x7FFF, returns MLX90614_EC_OK and
\* stores the value of the selected unit's formula at r.
C14_ConversionOfSelectedUnit ==
    (/\ op \in ChannelReads
     /\ p_get_mlx90614_converted_temperature # NULL_FN
     /\ TransportRead.res = HAL_OK
     /\ RawOf(TransportRead) <= 32767)
    => /\ ret = MLX90614_EC_OK
       /\ Len(dst) = 1
       /\ IsFormulaValue(mlx90614_temperature_type, RawOf(TransportRead),
                         dst[1])

\* with Fahrenheit selected the object1 read delivered 0x7FFF
C14_Witness ==
    /\ op = "get_mlx90614_object1_temperature"
    /\ mlx90614_temperature_type = MLX90614_Temp_F
    /\ TransportRead.res = HAL_OK
    /\ RawOf(TransportRead) = 32767
    /\ ret = MLX90614_EC_OK
    /\ dst = <<719942>>

INIT == "init_mlx90614_module"
GET_ADDR == "get_mlx90614_module_slave_address"

\* the selected unit and the conversion function are what they were before
\* the step
UnitKept ==
    /\ mlx90614_temperature_type' = mlx90614_temperature_type
    /\ p_get_mlx90614_converted_temperature' =
           p_get_mlx90614_converted_temperature

\* the conversion function fn computes the formula of unit u
AppliesFormula(fn, u) ==
    /\ fn # NULL_FN
    /\ \A r \in RawTemps \cap (0 .. 32767) :
         \A out \in call_converted_temperature(fn, r) :
            IsFormulaValue(u, r, out[1])

\* C15: set_mlx90614_temperature_type(u) with u none of Kelvin, Celsius and
\* Fahrenheit returns MLX90614_EC_ERR and leaves the selected unit and the
\* conversion function as they were; get_mlx90614_temperature_type returns the
\* selected unit, and a channel read converts with the conversion function as
\* it stands and changes neither.
C15_SetTypeRejectsUnknownUnit ==
    [][/\ (op' = SET_TYPE /\ arg_temp' \notin Units)
            => (ret' = MLX90614_EC_ERR /\ UnitKept)
       /\ op' = GET_TYPE
            => (ret' = mlx90614_temperature_type /\ UnitKept)
       /\ (op' \in ChannelReads /\ ret' = MLX90614_EC_OK)
            => /\ UnitKept
               /\ dst' \in call_converted_temperature(
                      p_get_mlx90614_converted_temperature,
                      RawOf(log'[1]))]_vars

\* an unrecognised unit was rejected while Celsius was selected
C15_Witness ==
    /\ op = SET_TYPE
    /\ arg_temp \notin Units
    /\ ret = MLX90614_EC_ERR
    /\ mlx90614_temperature_type = MLX90614_Temp_C
    /\ p_get_mlx90614_converted_temperature = CELSIUS_FN

\* C16: set_mlx90614_temperature_type(u) with u one of Kelvin, Celsius and
\* Fahrenheit returns MLX90614_EC_OK from every state, the selected unit is u
\* and the conversion function computes u's formula; only init_mlx90614_module
\* and set_mlx90614_temperature_type change the two, and every successful
\* channel read stores the formula value of the unit selected at that time.
C16_SetTypeSelectsUnit ==
    [][/\ (op' = SET_TYPE /\ arg_temp' \in Units)
            => /\ ret' = MLX90614_EC_OK
               /\ mlx90614_temperature_type' = arg_temp'
               /\ AppliesFormula(p_get_mlx90614_converted_temperature',
                                 arg_temp')
       /\ op' \notin {SET_TYPE, INIT} => UnitKept
       /\ (/\ op' \in ChannelReads
           /\ ret' = MLX90614_EC_OK
           /\ p_get_mlx90614_converted_temperature # NULL_FN)
            => IsFormulaValue(mlx90614_temperature_type, RawOf(log'[1]),
                              dst'[1])]_vars

\* Fahrenheit was selected by set_mlx90614_temperature_type on a driver that
\* init_mlx90614_module never initialised
C16_Witness ==
    /\ op = SET_TYPE
    /\ arg_temp = MLX90614_Temp_F
    /\ ret = MLX90614_EC_OK
    /\ mlx90614_temperature_type = MLX90614_Temp_F
    /\ p_hi2c = NULL

(***************************************************************************)
(* Properties of the believed address.                                     *)
(***************************************************************************)
\* C17: in every state reachable by calls of init_mlx90614_module,
\* find_mlx90614_slave_address, set_mlx90614_module_slave_address and
\* set_mlx90614_device_slave_address the believed address lies within
\* 0x03 .. 0x7E.
C17_BelievedAddressInRange ==
    mlx90614_slave_address \in ValidAddresses

C19_InitAtomicOnNoAnswer ==
    [][(/\ op' = INIT
        /\ arg_addr' \in ValidAddresses
        /\ arg_addr' \notin ready'
        /\ ~halted')
        => /\ ret' = MLX90614_EC_NR
           /\ p_hi2c' = p_hi2c
           /\ AddressKept
           /\ UnitKept]_vars

\* a second init with another handle, another address and another unit than
\* the ones in use got no answer
C19_Witness ==
    /\ op = INIT
    /\ arg_addr \in ValidAddresses
    /\ arg_addr \notin ready
    /\ arg_addr # mlx90614_slave_address
    /\ p_hi2c # NULL
    /\ arg_hi2c # p_hi2c
    /\ arg_temp \in Units
    /\ arg_temp # mlx90614_temperature_type
    /\ ret = MLX90614_EC_NR

\* C20: set_mlx90614_module_slave_address(a) with a in 0x03 .. 0x7E whose probe
\* answers ready returns MLX90614_EC_OK with the believed address a and the
\* wire address 2*a; get_mlx90614_module_slave_address returns the believed
\* address; from then on the wire address stays 2*a while the believed
\* address stays a, and every channel read is addressed to the wire address.
C20_SetModuleRedirectsReads ==
    [][/\ (/\ op' = SET_MODULE
           /\ arg_addr' \in ValidAddresses
           /\ arg_addr' \in ready'
           /\ ~halted')
            => /\ ret' = MLX90614_EC_OK
               /\ mlx90614_slave_address' = arg_addr'
               /\ mlx90614_slave_address_one_bit_left_shifted'
                      = 2 * arg_addr'
       /\ op' = GET_ADDR
            => (ret' = mlx90614_slave_address /\ AddressKept)
       /\ (/\ mlx90614_slave_address_one_bit_left_shifted
                  = 2 * mlx90614_slave_address
           /\ mlx90614_slave_address' = mlx90614_slave_address)
            => mlx90614_slave_address_one_bit_left_shifted'
                  = mlx90614_slave_address_one_bit_left_shifted
       /\ op' \in ChannelReads
            => /\ AddressKept
               /\ log'[1].w = mlx90614_slave_address_one_bit_left_shifted
               ]_vars

\* the believed address was moved from another address to 0x7E
C20_Witness ==
    /\ op = SET_MODULE
    /\ arg_addr = MLX90614_MAX_VALID_SLAVE_ADDRESS_VALUE
    /\ ret = MLX90614_EC_OK
    /\ Len(log) = 1
    /\ log[1].w = 2 * MLX90614_MAX_VALID_SLAVE_ADDRESS_VALUE
    /\ mlx90614_slave_address = MLX90614_MAX_VALID_SLAVE_ADDRESS_VALUE
    /\ mlx90614_slave_address_one_bit_left_shifted
           = 2 * MLX90614_MAX_VALID_SLAVE_ADDRESS_VALUE

(***************************************************************************)
(* Properties of the driver on a bus with one sensor.                      *)
(***************************************************************************)
\* no variable of the driver and nothing of the last call's record changes
DriverUntouched ==
    UNCHANGED <<drv, op, arg_addr, arg_temp, arg_hi2c, ready, fail,
                cell_after, log, ret, dst>>

\* C11 as claimed: once set_mlx90614_device_slave_address(n) has succeeded
\* with n other than the address the sensor answers at (the address cell
\* holds n) and until the sensor is power cycled, every channel read returns
\* MLX90614_EC_NR.
C11_EveryReadFailsUntilPowerCycle ==
    [][(/\ device_cell \in ValidAddresses
        /\ device_cell # device_address
        /\ op' \in ChannelReads)
        => ret' = MLX90614_EC_NR]_vars

\* C11 amended: a successful set_mlx90614_device_slave_address(n) makes n the
\* believed address and leaves the sensor answering at its power-up address;
\* while the believed address differs from that address every channel read
\* returns MLX90614_EC_NR with nothing stored, and so does
\* set_mlx90614_module_slave_address(n) for every in-range n the sensor does
\* not answer at; a channel read or set_mlx90614_module_slave_address
\* succeeds only at the address the sensor answers at; no call of the driver
\* changes that address, and the power cycle that does changes nothing in
\* the driver.
C11_NewAddressDeadUntilPowerCycle ==
    [][/\ (op' = SET_DEVICE /\ ret' = MLX90614_EC_OK)
            => /\ mlx90614_slave_address' = arg_addr'
               /\ device_cell' = arg_addr'
               /\ device_address' = device_address
       /\ (/\ op' \in ChannelReads
           /\ mlx90614_slave_address # device_address)
            => (ret' = MLX90614_EC_NR /\ dst' = NOT_WRITTEN)
       /\ (/\ op' = SET_MODULE
           /\ arg_addr' \in ValidAddresses
           /\ arg_addr' # device_address)
            => (ret' = MLX90614_EC_NR /\ AddressKept)
       /\ (op' \in ChannelReads \cup {SET_MODULE} /\ ret' = MLX90614_EC_OK)
            => mlx90614_slave_address' = device_address
       /\ op' # op => device_address' = device_address
       /\ device_address' # device_address
            => (DriverUntouched /\ device_address' = device_cell)]_vars

\* the sensor was rewritten to the address the driver now believes, was not
\* power cycled, and a channel read got no response
C11_Witness ==
    /\ op \in ChannelReads
    /\ ret = MLX90614_EC_NR
    /\ mlx90614_slave_address = device_cell
    /\ device_cell \in ValidAddresses
    /\ device_cell # device_address

(***************************************************************************)
(* Properties of the address range, the checksum and the status codes.     *)
(***************************************************************************)
\* C21: set_mlx90614_module_slave_address takes every address 1 .. 127 as
\* valid: with no device answering at such an address it returns
\* MLX90614_EC_NR, and it returns MLX90614_EC_ERR only for 0 and for
\* addresses above 127.
C21_SetModuleValidRangeOneTo127 ==
    (op = SET_MODULE /\ ~halted)
    => /\ (arg_addr \in 1 .. 127 /\ arg_addr \notin ready)
            => ret = MLX90614_EC_NR
       /\ ret = MLX90614_EC_ERR => (arg_addr = 0 \/ arg_addr > 127)

\* a ^ b on bytes, bit by bit
RefXor(a, b) ==
    ((Bit(a, 0) + Bit(b, 0)) % 2)
    + 2 * ((Bit(a, 1) + Bit(b, 1)) % 2)
    + 4 * ((Bit(a, 2) + Bit(b, 2)) % 2)
    + 8 * ((Bit(a, 3) + Bit(b, 3)) % 2)
    + 16 * ((Bit(a, 4) + Bit(b, 4)) % 2)
    + 32 * ((Bit(a, 5) + Bit(b, 5)) % 2)
    + 64 * ((Bit(a, 6) + Bit(b, 6)) % 2)
    + 128 * ((Bit(a, 7) + Bit(b, 7)) % 2)

\* one step of the CRC-8 register with polynomial 0x07, MSB first
RefStep ==
    [acc \in 0 .. 255 |->
        IF acc >= 128 THEN RefXor((acc * 2) % 256, 7) ELSE (acc * 2) % 256]

\* eight steps
RefByte ==
    [acc \in 0 .. 255 |->
        RefStep[RefStep[RefStep[RefStep[
            RefStep[RefStep[RefStep[RefStep[acc]]]]]]]]]

\* the CRC-8 of a byte sequence: initial value 0, no reflection, no final
\* inversion
RefCrc8(bytes) ==
    LET crc[n \in 0 .. Len(bytes)] ==
            IF n = 0 THEN 0 ELSE RefByte[RefXor(crc[n - 1], bytes[n])]
    IN  crc[Len(bytes)]

\* C22: calculate_pec folded from accumulator 0 over a byte sequence gives
\* the CRC-8 of the bytes taken so far with polynomial 0x07, MSB first,
\* initial value 0, no reflection and no final inversion; the digits
\* "123456789" give 0xF4.
C22_PecIsCrc8 ==
    /\ pec = RefCrc8(SubSeq(pec_input, 1, pec_fed))
    /\ (pec_input = <<49, 50, 51, 52, 53, 54, 55, 56, 57>> /\ pec_fed = 9)
            => pec = 244

\* the checksum of "123456789" is complete
C22_Witness ==
    /\ pec_input = <<49, 50, 51, 52, 53, 54, 55, 56, 57>>
    /\ pec_fed = Len(pec_input)
    /\ pec = 244

\* byte x with bit i inverted
FlipBit(x, i) == IF Bit(x, i) = 1 THEN x - 2 ^ i ELSE x + 2 ^ i

\* the 4 bytes with bit i of byte k inverted
FlipAt(bytes, k, i) == [bytes EXCEPT ![k] = FlipBit(bytes[k], i)]

\* the checksum the driver computes over 4 bytes
PecOf(bytes) == command_pec(bytes[1], bytes[2], bytes[3], bytes[4])

\* the checksums of the 32 inputs one bit away
FlippedPecs ==
    {PecOf(FlipAt(pec_input, k, i)) : k \in 1 .. 4, i \in 0 .. 7}

\* C23: for every 4-byte checksum input (wire address, EEPROM address, two
\* payload bytes), inverting any single bit changes the checksum, no two
\* different single-bit inversions give the same checksum, and the checksum
\* is the same each time it is computed over the same bytes.
C23_PecSeparatesSingleBitFlips ==
    (Len(pec_input) = 4 /\ pec_fed = 4)
    => /\ pec \notin FlippedPecs
       /\ Cardinality(FlippedPecs) = 32
       /\ pec = PecOf(pec_input)

\* the checksum of a command with a non-zero low payload byte is complete
C23_Witness ==
    /\ Len(pec_input) = 4
    /\ pec_fed = 4
    /\ pec_input[1] = Shl1(DEFAULT_SLAVE_ADDRESS)
    /\ pec_input[3] = 3
    /\ pec # 0

(***************************************************************************)
(* Properties of the conversions at the raw value 13807.  Temperatures are *)
(* thousandths of a degree, so 1e-3 is 1 and 1e-2 is 10.                   *)
(***************************************************************************)
\* a channel read called func on the raw value r and returned
ConvertedBy(func, r) ==
    /\ op \in ChannelReads
    /\ p_get_mlx90614_converted_temperature = func
    /\ TransportRead.res = HAL_OK
    /\ RawOf(TransportRead) = r
    /\ Len(dst) = 1

\* v is within tol of target
Within(v, target, tol) == v - target <= tol /\ target - v <= tol

\* C24 as stated: for the raw value 13807 the Celsius conversion yields 0.0
\* within 1e-3 and the Fahrenheit conversion yields 32.0 within 1e-2.
C24_Raw13807IsZeroCelsius ==
    /\ ConvertedBy(CELSIUS_FN, 13807) => Within(dst[1], 0, 1)
    /\ ConvertedBy(FAHRENHEIT_FN, 13807) => Within(dst[1], 32000, 10)

\* C24: for the raw value 13807 the Celsius conversion yields 2.99 within
\* 1e-3 and the Fahrenheit conversion yields 37.382 within 1e-2.
C24_Raw13807Is2p99Celsius ==
    /\ ConvertedBy(CELSIUS_FN, 13807) => Within(dst[1], 2990, 1)
    /\ ConvertedBy(FAHRENHEIT_FN, 13807) => Within(dst[1], 37382, 10)

\* a read of the ambient channel converted 13807 to Celsius
C24_Witness ==
    /\ ConvertedBy(CELSIUS_FN, 13807)
    /\ op = "get_mlx90614_ambient_temperature"
    /\ ret = MLX90614_EC_OK
    /\ dst = <<2990>>

\* C25: for the raw value 13807 the Kelvin conversion yields 276.14.
C25_Raw13807Is276p14Kelvin ==
    ConvertedBy(KELVIN_FN, 13807) => dst = <<276140>>

\* a read of the object2 channel converted 13807 to Kelvin
C25_Witness ==
    /\ ConvertedBy(KELVIN_FN, 13807)
    /\ op = "get_mlx90614_object2_temperature"
    /\ ret = MLX90614_EC_OK
    /\ dst = <<276140>>

(***************************************************************************)
(* Properties of the returned status and of what a call leaves alone.      *)
(***************************************************************************)
\* the statuses a channel read returns when the read succeeds and the raw
\* value has its top bit set
ErrorFlagStatuses ==
    {channel_read_body(MLX90614_TA_RAM_ADDRESS, HAL_OK,
                       raw % 256, raw \div 256, <<>>).ret :
        raw \in {r \in RawTemps : r >= 32768}}

\* C26 as stated: the status of a channel read on a raw value with the top
\* bit set is different from every status a channel read returns for a busy
\* bus, a timeout or a protocol error.
C26_ErrorFlagStatusIsItsOwn ==
    (op \in ChannelReads /\ TransportRead.res \in HALFailure)
    => ret \notin ErrorFlagStatuses

\* C26: the status of a channel read on a raw value with the top bit set
\* (MLX90614_EC_ERR) is different from the status a channel read returns for
\* a busy bus or a timeout (MLX90614_EC_NR), and it is the status a channel
\* read returns for a protocol error.
C26_ErrorFlagStatusIsProtocolErrorStatus ==
    /\ (op \in ChannelReads /\ TransportRead.res \in {HAL_BUSY, HAL_TIMEOUT})
            => ret \notin ErrorFlagStatuses
    /\ (op \in ChannelReads /\ TransportRead.res = HAL_ERROR)
            => ret \in ErrorFlagStatuses
    /\ ErrorFlagStatuses = {MLX90614_EC_ERR}

\* the read of the object1 channel met a busy bus
C26_Witness ==
    /\ op = "get_mlx90614_object1_temperature"
    /\ TransportRead.res = HAL_BUSY
    /\ ret = MLX90614_EC_NR
    /\ ret \notin ErrorFlagStatuses

\* C27: get_mlx90614_module_slave_address, get_mlx90614_temperature_type and
\* set_mlx90614_temperature_type issue no bus transaction and no delay; the
\* two getters change no driver state; set_mlx90614_temperature_type and the
\* three channel reads leave the believed and the wire address as they were;
\* find_mlx90614_slave_address and the two address setters leave the selected
\* unit and the conversion function as they were.
C27_CallsLeaveTheRestAlone ==
    [][/\ op' \in {GET_ADDR, GET_TYPE, SET_TYPE} => log' = <<>>
       /\ op' \in {GET_ADDR, GET_TYPE} => UNCHANGED drv
       /\ op' \in {SET_TYPE} \cup ChannelReads => AddressKept
       /\ op' \in {FIND, SET_MODULE, SET_DEVICE} => UnitKept]_vars

\* set_mlx90614_temperature_type selected Fahrenheit while the believed
\* address was one that find_mlx90614_slave_address or a setter had stored
C27_Witness ==
    /\ op = SET_TYPE
    /\ arg_temp = MLX90614_Temp_F
    /\ ret = MLX90614_EC_OK
    /\ log = <<>>
    /\ mlx90614_slave_address # DEFAULT_SLAVE_ADDRESS
    /\ mlx90614_slave_address_one_bit_left_shifted
           = Shl1(mlx90614_slave_address)

\* the operations that return an MLX90614_Status
StatusOps == {INIT, FIND, SET_MODULE, SET_DEVICE, SET_TYPE} \cup ChannelReads

\* C28: HAL_ret_handler is defined on each of the four HAL results: HAL_BUSY
\* and HAL_TIMEOUT give MLX90614_EC_NR, HAL_ERROR gives MLX90614_EC_ERR and
\* HAL_OK gives MLX90614_EC_OK; every operation that returns a status returns
\* one of MLX90614_EC_OK, MLX90614_EC_NR and MLX90614_EC_ERR when the HAL
\* calls return one of the four results.
C28_StatusMappingTotal ==
    /\ \A s \in HALStatus : HAL_ret_handler(s) = MappedStatus(s)
    /\ {HAL_ret_handler(s) : s \in HALStatus}
           = {MLX90614_EC_OK, MLX90614_EC_NR, MLX90614_EC_ERR}
    /\ (op \in StatusOps /\ ~halted)
           => ret \in {MLX90614_EC_OK, MLX90614_EC_NR, MLX90614_EC_ERR}

\* the read of the address cell in set_mlx90614_device_slave_address timed
\* out
C28_Witness ==
    /\ op = SET_DEVICE
    /\ Len(log) = 1
    /\ log[1].res = HAL_TIMEOUT
    /\ ret = MLX90614_EC_NR

\* the HAL call the last call issued last
LastCall == log[Len(log)]
IsProbe(e) == e.k = "HAL_I2C_IsDeviceReady"

\* the last call ended on a HAL call that did not succeed
EndedOnFailure ==
    /\ op \in StatusOps
    /\ ~halted
    /\ log # <<>>
    /\ LastCall.res \in HALFailure

\* C29 as stated: whichever HAL call an operation ends on (a readiness probe
\* of init, find or set-module, a read, a write), its result becomes the
\* returned status through the shared mapping: HAL_ERROR surfaces as
\* MLX90614_EC_ERR, HAL_BUSY and HAL_TIMEOUT as MLX90614_EC_NR.
C29_EveryCallSiteMaps ==
    EndedOnFailure => ret = MappedStatus(LastCall.res)

\* C29: a read or a write (set-device, channel reads) that does not succeed
\* gives the status of the shared mapping; a readiness probe (init, find,
\* set-module) that does not succeed gives MLX90614_EC_NR whatever the HAL
\* result, HAL_ERROR included.
C29_ProbesReportNotResponding ==
    /\ (EndedOnFailure /\ IsTransport(LastCall))
           => ret = MappedStatus(LastCall.res)
    /\ (EndedOnFailure /\ IsProbe(LastCall))
           => (op \in {INIT, FIND, SET_MODULE} /\ ret = MLX90614_EC_NR)

\* the probe of set_mlx90614_module_slave_address met a protocol error
C29_Witness ==
    /\ op = SET_MODULE
    /\ Len(log) = 1
    /\ IsProbe(LastCall)
    /\ LastCall.res = HAL_ERROR
    /\ ret = MLX90614_EC_NR

(***************************************************************************)
(* Properties of the commands of set_mlx90614_device_slave_address.        *)
(***************************************************************************)
\* C30: in a set_mlx90614_device_slave_address call that reaches the write,
\* the erase command is (0x2E, 0x00, 0x00, pecE) and the write command is
\* (0x2E, new_slave_address, h, pecW), h being the second byte the read of
\* the address cell returned; pecE and pecW are each the checksum from
\* accumulator 0 over the wire address byte, 0x2E and the two payload bytes
\* of their own command, so pecW does not depend on pecE.
C30_EraseAndWriteCommands ==
    (op = SET_DEVICE /\ Len(log) >= 4)
    => LET w == log[1].w
           h == log[1].data[2]
       IN  /\ IsTransmit(log[2]) /\ log[2].w = w
           /\ log[2].data = <<46, 0, 0, RefCrc8(<<w, 46, 0, 0>>)>>
           /\ IsTransmit(log[4]) /\ log[4].w = w
           /\ log[4].data
                  = <<46, arg_addr, h, RefCrc8(<<w, 46, arg_addr, h>>)>>

\* a rewrite to another address that kept a non-zero high byte
C30_Witness ==
    /\ op = SET_DEVICE
    /\ Len(log) = 5
    /\ ret = MLX90614_EC_OK
    /\ log[1].data[2] = 1
    /\ log[4].data[2] # log[1].data[1]
    /\ log[4].data[3] = 1
    /\ log[4].data[4] # log[2].data[4]

IsDelay(e) == e.k = "HAL_Delay"
IsMemRead(e) == e.k = "HAL_I2C_Mem_Read"

RegisterOf(name) ==
    CASE name = "get_mlx90614_ambient_temperature" -> 6
      [] name = "get_mlx90614_object1_temperature" -> 7
      [] name = "get_mlx90614_object2_temperature" -> 8

\* C32: each channel read issues exactly one transport read, of 2 bytes, at
\* the wire address held when it is called and at the register of its
\* channel (0x06 ambient, 0x07 object1, 0x08 object2); a read called after
\* find or an address setter changed the address uses the new wire address.
C32_ChannelReadTransaction ==
    [][(op = "none" /\ op' \in ChannelReads)
       => /\ Len(log') = 1
          /\ IsMemRead(log'[1])
          /\ log'[1].n = 2
          /\ log'[1].reg = RegisterOf(op')
          /\ log'[1].w = mlx90614_slave_address_one_bit_left_shifted
          /\ log'[1].h = p_hi2c]_vars

\* the object2 read went to the wire address a setter or the sweep had stored
C32_Witness ==
    /\ op = "get_mlx90614_object2_temperature"
    /\ Len(log) = 1
    /\ log[1].reg = 8
    /\ log[1].n = 2
    /\ log[1].res = HAL_OK
    /\ mlx90614_slave_address # DEFAULT_SLAVE_ADDRESS
    /\ log[1].w = Shl1(mlx90614_slave_address)

\* C33: every probe of find_mlx90614_slave_address goes to a wire address 2*a
\* with a in 0x03 .. 0x7E; address 0 is never probed, and when only address 0
\* or addresses outside the range answer ready the sweep returns
\* MLX90614_EC_NR.
C33_SweepStaysInRange ==
    op = FIND
    => /\ \A i \in LogIndices(log) :
            /\ IsProbe(log[i])
            /\ log[i].w # 0
            /\ \E a \in 3 .. 126 : log[i].w = 2 * a
       /\ (~halted /\ ready # {} /\ ready \cap (3 .. 126) = {})
            => ret = MLX90614_EC_NR

\* a sweep over a bus on which only the universal address answers
C33_Witness ==
    /\ op = FIND
    /\ ready = {0}
    /\ ret = MLX90614_EC_NR
    /\ log # <<>>
    /\ log[1].w = 6

\* the lowest address of the range that answers ready
LowestAnswering == CHOOSE k \in ready \cap (3 .. 126) :
                       \A a \in ready \cap (3 .. 126) : k <= a

\* C34: find_mlx90614_slave_address issues at most 124 probes, no address
\* twice; exactly 124 when no address of the range answers, and exactly
\* k - 0x03 + 1 when k is the lowest answering address.
C34_SweepProbeCount ==
    op = FIND
    => /\ Len(log) <= 124
       /\ \A i, j \in LogIndices(log) : i # j => log[i].w # log[j].w
       /\ (~halted /\ ready \cap (3 .. 126) = {}) => Len(log) = 124
       /\ (~halted /\ ready \cap (3 .. 126) # {})
            => Len(log) = LowestAnswering - 3 + 1

\* only the highest address of the range answered: all 124 probes were issued
C34_Witness ==
    /\ op = FIND
    /\ ready \cap (3 .. 126) = {126}
    /\ ret = MLX90614_EC_OK
    /\ Len(log) = 124
    /\ log[124].w = 252

(***************************************************************************)
(* Properties of the static variables across calls.                        *)
(***************************************************************************)
\* the wire address is twice the believed address, which fits in 8 bits
InSync(addr, wire) == wire = 2 * addr /\ wire <= UINT8_MAX

\* C35: once init_mlx90614_module has returned MLX90614_EC_OK the wire
\* address is twice the believed address (a value that fits in 8 bits), and
\* no later call, successful or failing, makes the two differ.
C35_WireAddressInSync ==
    [][/\ (op' = INIT /\ ret' = MLX90614_EC_OK)
            => InSync(mlx90614_slave_address',
                      mlx90614_slave_address_one_bit_left_shifted')
       /\ InSync(mlx90614_slave_address,
                 mlx90614_slave_address_one_bit_left_shifted)
            => InSync(mlx90614_slave_address',
                      mlx90614_slave_address_one_bit_left_shifted')]_vars

\* with a handle stored by init_mlx90614_module, a rewrite whose erase was
\* refused left the address found by an earlier call in place
C35_Witness ==
    /\ op = SET_DEVICE
    /\ p_hi2c # NULL
    /\ Len(log) = 2
    /\ ret = MLX90614_EC_ERR
    /\ mlx90614_slave_address = MLX90614_MIN_VALID_SLAVE_ADDRESS_VALUE
    /\ mlx90614_slave_address_one_bit_left_shifted = 6

\* a reported unit that is one of the three has its conversion function
UnitHasItsConversion(type, conv) ==
    type \in Units => (conv # NULL_FN /\ AppliesFormula(conv, type))

\* no call was made yet
NothingCalledYet == StaticInit /\ op = "none"

\* C36: after a call sequence that begins with init_mlx90614_module, whether
\* that call succeeds or fails, the conversion function the channel reads
\* call is the one of the unit get_mlx90614_temperature_type reports: the
\* first call being init_mlx90614_module leaves such a state, and no later
\* call leaves such a state for one in which the reported unit is Kelvin,
\* Celsius or Fahrenheit and the function is unset or another unit's.
C36_ConversionMatchesReportedUnit ==
    [][/\ (NothingCalledYet /\ op' = INIT /\ ~halted')
            => UnitHasItsConversion(mlx90614_temperature_type',
                                    p_get_mlx90614_converted_temperature')
       /\ UnitHasItsConversion(mlx90614_temperature_type,
                               p_get_mlx90614_converted_temperature)
            => UnitHasItsConversion(mlx90614_temperature_type',
                                    p_get_mlx90614_converted_temperature')
      ]_vars

(***************************************************************************)
(* Properties of init_mlx90614_module.                                     *)
(***************************************************************************)
\* C37: when init_mlx90614_module is called with a non-zero address its
\* readiness probe goes through the handle passed to that call; the first
\* init with a non-zero address never probes through the null handle.
C37_InitProbesThroughGivenHandle ==
    (op = INIT /\ arg_addr # 0 /\ log # <<>>)
    => /\ IsProbe(log[1])
       /\ log[1].h = arg_hi2c
       /\ log[1].h # NULL

\* C38: when init_mlx90614_module returns MLX90614_EC_ERR, for an
\* unrecognised unit or for an address above the maximum, the believed
\* address, the wire address and the stored handle are what they were before
\* the call, also when the requested non-zero address answered the probe.
C38_InitErrorChangesNothing ==
    [][(op = "none" /\ op' = INIT /\ ret' = MLX90614_EC_ERR)
        => (AddressKept /\ p_hi2c' = p_hi2c)]_vars

(***************************************************************************)
(* Properties of the address cell of the sensor.                           *)
(***************************************************************************)
\* the sensor acknowledged an erase command among the HAL calls lg
EraseAcked(lg) ==
    \E i \in LogIndices(lg) : IsErase(lg[i]) /\ lg[i].res = HAL_OK

\* C39 as stated: whenever set_mlx90614_device_slave_address returns a
\* status other than MLX90614_EC_OK, the address cell of the sensor holds the
\* value it had before the call.
C39_FailedRewriteKeepsCell ==
    [][(op = "none" /\ op' = SET_DEVICE /\ ret' # MLX90614_EC_OK)
        => device_cell' = device_cell]_vars

\* C39: when set_mlx90614_device_slave_address returns a status other than
\* MLX90614_EC_OK, the address cell holds the value it had before the call
\* if the erase command was not acknowledged (and then nothing was sent after
\* it), and holds the erased value 0 if the erase command was acknowledged
\* and the write command was not.
C39_FailedRewriteKeepsOrErasesCell ==
    [][(op = "none" /\ op' = SET_DEVICE /\ ret' # MLX90614_EC_OK)
        => IF EraseAcked(log')
           THEN /\ device_cell' = MLX90614_SLAVE_ADDRESS_EEPROM_ERASE_VALUE
                /\ Len(log') = 4
                /\ log'[4].res # HAL_OK
           ELSE /\ device_cell' = device_cell
                /\ Len(log') <= 2]_vars

\* the erase was acknowledged, the write met a bus error: the cell is erased
C39_Witness ==
    /\ op = SET_DEVICE
    /\ Len(log) = 4
    /\ log[2].res = HAL_OK
    /\ log[4].res = HAL_ERROR
    /\ ret = MLX90614_EC_ERR
    /\ device_cell = MLX90614_SLAVE_ADDRESS_EEPROM_ERASE_VALUE
    /\ device_address = DEFAULT_SLAVE_ADDRESS
====
